---------------------------- MODULE Spec2Model ----------------------------
(***************************************************************************)
(* A model of node-hdb-pool: one HDBPool (lib/hdbPool.js) on top of the    *)
(* generic-pool resource pool, the query dispatcher (query, execQuery,     *)
(* executeQuery, initRequest), and the user-pool registry of               *)
(* lib/hdbMetaPool.js.                                                      *)
(*                                                                         *)
(* JavaScript runs one callback at a time, so every action below is one    *)
(* turn of the event loop: a call made by the application or one callback  *)
(* of the database client, of a request object or of a timer, together     *)
(* with everything that callback calls synchronously.                      *)
(***************************************************************************)
EXTENDS Naturals, Sequences, FiniteSets, TLC

\* ------------------------------------------------------------------ bounds
NumDispatch == 2        \* dispatches (calls of exec / meta / stream) explored
NumReq      == 1        \* request objects the dispatches may be made with
MaxHandles  == 3        \* clients hdb.createClient may make in one behaviour
MaxErrors   == 1        \* 'error' events the clients may emit in one behaviour
MaxPoolOpt  == 2        \* largest options.maxPoolSize explored

Dispatches == 1..NumDispatch
Requests   == 1..NumReq
Handles    == 1..MaxHandles
NoReq      == 0         \* a dispatch made without a request object
NoHandle   == 0
NoCookie   == 0
Unset      == 0         \* an option that is undefined
CfgCookie  == MaxHandles + 1   \* the cookie a sessionCookie pool is configured with

VARIABLES
    options,    \* the options object shared by the pool's closures
    refreshIdle,\* factory.refreshIdle
    fmax,       \* factory.max of generic-pool (Unset once it was set to undefined)
    fmin,       \* factory.min of generic-pool
    count,      \* generic-pool: resources created and not destroyed
    avail,      \* generic-pool: the idle resources, oldest release first
    inUse,      \* generic-pool: the resources handed out
    waiting,    \* generic-pool: the waiting acquire callbacks, FIFO
    client,     \* per handle: the state of the hdb client
    method,     \* per handle: connOpts.method of its create call
    cookie,     \* per handle: the session cookie of its session
    nAuth,      \* number of successful assertion authentications
    nErr,       \* number of client 'error' events so far
    pc,         \* per dispatch: where it is
    req,        \* per dispatch: its request object, or NoReq
    held,       \* per dispatch: the client its acquire callback was given
    cbs,        \* per dispatch: the calls of the caller's callback, in order
    served,     \* the dispatches that were given a handle, in the order given
    listeners,  \* per request: the closeCb listeners on 'close', in order
    reqQueue,   \* the ids registered in pool.reqQueue
    reqSt,      \* per request: "fresh", "open", "ended" ('end' came), "errored" or "closed"
    early,      \* history: the dispatches made before any connect succeeded
    dropped,    \* history: the dispatches whose request closed while they waited
    ok          \* FALSE once a step needed more clients than MaxHandles

poolVars == <<options, refreshIdle, fmax, fmin, count, avail, inUse, waiting,
              client, method, cookie, nAuth, nErr, pc, req, held, cbs, served,
              listeners, reqQueue, reqSt, early, dropped, ok>>

\* ------------------------------------------- the registry of hdbMetaPool.js
\* One SAML user and one environment, seen through several express sessions.
\* The user's pool is built with minPoolSize 1 and maxPoolSize 1
\* (Conf.userpool.POOL_SIZE not set), so it has at most one client at a time.
NumSessions == 2        \* express sessions of the user
NumQueries  == 3        \* calls of hdbMetaPool's query explored
MaxPools    == 2        \* user pools createUserPool may build in one behaviour
MaxCookies  == 2        \* session cookies HANA may issue in one behaviour

Sessions == 1..NumSessions
Queries  == 1..NumQueries
Pools    == 1..MaxPools
Cookies  == 1..MaxCookies
NoPool   == 0           \* userPools[userId].pools[env] absent or null
EnvPool  == MaxPools + 1          \* envPools[env], the shared pool of the environment
AllPools == Pools \cup {EnvPool}
NoSession   == 0                  \* a query made without a request object
AnonSession == NumSessions + 1    \* a request whose session holds no passport user
BareSession == NumSessions + 2    \* a session of the user whose passport user has no assertion
UserSessions == Sessions \cup {BareSession}   \* the sessions that hold the passport user
Reaper      == NumSessions + 3    \* cleanupUserPools, as the caller of drainUserPool
\* The values getEnvFromRequest may give: the environment configured in
\* Conf.db, nothing, a text with a character outside [A-Za-z0-9_], a word that
\* is no key of Conf.db, and 'default', the key of Conf.db that names the
\* default environment.
Envs == {"HDB", "", "HDB;x", "NOPE", "default"}
\* The waiters of a pool are queries, and the probes detectSAMLerror runs on
\* the environment pool for a query.
Probe(q)   == NumQueries + q
IsProbe(j) == j > NumQueries
QueryOf(j) == IF IsProbe(j) THEN j - NumQueries ELSE j

VARIABLES
    sessCookie, \* per session: session.passport.user[env].HANAsessionCookie
    userPools,  \* userPools[userId]: registered, its sessions, pools[env]
    upool,      \* per pool (user pools built, environment pool): options, client, queue
    mq,         \* per query: its request (session, SAMLAuthenticated), its pool,
                \* where it is, its outcome, the error _drain was given, its probe
    hana,       \* the cookies HANA accepts, and how many it has issued
    store,      \* the sessions the session store holds (req.sessionStore)
    lo,         \* per session: where its logout is, the session ids async.detect
                \* looks up, the calls of next
    lib,        \* minProp: whether generic-pool reads the min that _drain sets on pool.pool
    cleaned     \* history: the cookies whose pool was flushed by _clean

metaVars == <<sessCookie, userPools, upool, mq, hana, store, lo, lib, cleaned>>

VARIABLES
    cp          \* createPool: whether options has host and port, and whether
                \* the pool was asked for ("options"), refused ("nopool") or built ("pool")

VARIABLES
    dsv         \* a row of text values, the line the DSV stringifier makes of it,
                \* and the fields an RFC 4180 reader finds in the line

VARIABLES
    ex          \* what statement.exec called back with, whether the dispatch has a
                \* response object, and what execQuery did with it

VARIABLES
    lob         \* transformLobs: the rows written to it, the row being transformed
                \* and the read streams of its Lob columns, the rows pushed

pureVars == <<dsv, ex, lob>>

vars == <<poolVars, metaVars, cp, pureVars>>

\* no row is being stringified
PureIdle ==
    /\ dsv = [stage |-> "none"]
    /\ ex = [stage |-> "none"]
    /\ lob = [stage |-> "none"]

\* a pool that createPool has built
Built == [host |-> TRUE, port |-> TRUE, stage |-> "pool"]

\* userPools[userId] absent: the user is not registered. fresh: lastAccess is
\* within Conf.userpool.USER_TIMEOUT
Unregistered == [registered |-> FALSE, sessions |-> {}, pool |-> NoPool, fresh |-> FALSE]

\* hdbMetaPool.js after initPools, before its first query: the environment
\* pool is built (user and password, no minimum), no user is registered
MetaStart(l) ==
    /\ sessCookie = [s \in UserSessions |-> NoCookie]
    /\ userPools = Unregistered
    /\ upool = [p \in AllPools |->
                 [authMethod |-> IF p = EnvPool THEN "password" ELSE "none",
                  cookie |-> NoCookie, req |-> NoSession,
                  h |-> "none", conn |-> "none", waiting |-> <<>>,
                  min |-> 0, refreshIdle |-> TRUE,
                  draining |-> FALSE, drainFor |-> {}, stale |-> FALSE]]
    /\ mq = [q \in Queries |->
                 [sess |-> NoSession, saml |-> FALSE, env |-> "HDB", pool |-> NoPool,
                  pc |-> "init", out |-> "none", err |-> "none", probe |-> "none"]]
    /\ hana = [valid |-> {}, issued |-> 0]
    /\ store = UserSessions
    /\ lo = [s \in UserSessions \cup {AnonSession} |-> [pc |-> "none", keys |-> {}, nexts |-> 0]]
    /\ lib = l
    /\ cleaned = {}

\* The state as one record, so that the synchronous call chains of the code
\* (dispense -> acquire callback -> release -> dispense ...) are operators.
Cur == [options |-> options, refreshIdle |-> refreshIdle, fmax |-> fmax,
        fmin |-> fmin, count |-> count, avail |-> avail, inUse |-> inUse,
        waiting |-> waiting, client |-> client, method |-> method,
        cookie |-> cookie, nAuth |-> nAuth, nErr |-> nErr, pc |-> pc,
        req |-> req, held |-> held, cbs |-> cbs, served |-> served,
        listeners |-> listeners, reqQueue |-> reqQueue, reqSt |-> reqSt,
        early |-> early, dropped |-> dropped, ok |-> ok]

PoolBecomes(S) ==
    /\ S.ok
    /\ options' = S.options /\ refreshIdle' = S.refreshIdle
    /\ fmax' = S.fmax /\ fmin' = S.fmin /\ count' = S.count
    /\ avail' = S.avail /\ inUse' = S.inUse /\ waiting' = S.waiting
    /\ client' = S.client /\ method' = S.method /\ cookie' = S.cookie
    /\ nAuth' = S.nAuth /\ nErr' = S.nErr /\ pc' = S.pc /\ req' = S.req
    /\ held' = S.held /\ cbs' = S.cbs /\ served' = S.served
    /\ listeners' = S.listeners /\ reqQueue' = S.reqQueue
    /\ reqSt' = S.reqSt /\ early' = S.early /\ dropped' = S.dropped
    /\ ok' = S.ok

Becomes(S) == PoolBecomes(S) /\ UNCHANGED <<metaVars, cp, pureVars>>

Min(a, b) == IF a < b THEN a ELSE b
Max(a, b) == IF a < b THEN b ELSE a
Dec(n) == IF n = 0 THEN 0 ELSE n - 1
Remove(s, x) == SelectSeq(s, LAMBDA y : y # x)
InSeq(s, x) == \E i \in 1..Len(s) : s[i] = x


\* ------------------------------------------------------------ hdbPool.js
\* The id initRequest gives a dispatch: the request's hdbPoolRequestId, or a
\* fresh uuid for a dispatch made without a request.
IdOf(S, d) == IF S.req[d] = NoReq THEN NumReq + d ELSE S.req[d]

\* One call of the caller's callback cb.
CallCb(S, d, out) == [S EXCEPT !.cbs[d] = Append(@, out)]

\* (a selection that prefers the assertion to the session cookie)
MethodAssertionFirst(o) ==
    IF o.user /\ o.password THEN "password"
    ELSE IF o.assertion # "none" THEN "assertion"
    ELSE IF o.user /\ o.sessionCookie # NoCookie THEN "sessionCookie"
    ELSE "none"

\* (a selection that prefers the session cookie to the password)
MethodCookieFirst(o) ==
    IF o.user /\ o.sessionCookie # NoCookie THEN "sessionCookie"
    ELSE IF o.user /\ o.password THEN "password"
    ELSE IF o.assertion # "none" THEN "assertion"
    ELSE "none"

\* The authentication strategy create() selects from the shared options.
Method(o) ==
    IF o.user /\ o.password THEN "password"
    ELSE IF o.user /\ o.sessionCookie # NoCookie THEN "sessionCookie"
    ELSE IF o.assertion # "none" THEN "assertion"
    ELSE "none"

\* factory.validate
Validate(S, h) == S.client[h] = "connected"

\* The number hdb.createClient gives its next client.
NextHandle(S) == 1 + Cardinality({h \in Handles : S.client[h] # "absent"})

RECURSIVE Dispense(_), Release(_, _), AcquireCb(_, _, _, _), CreateResource(_),
          CreateCb(_, _, _), Destroy(_, _), CreateN(_, _)

\* generic-pool: waitingClients.enqueue(callback)
Enqueue(q, d) == Append(q, d)

\* generic-pool: the callback handed to factory.create. It takes the longest
\* waiting acquirer when it is called, whatever made it be called.
CreateCb(S, h, err) ==
    LET d  == IF S.waiting = <<>> THEN 0 ELSE Head(S.waiting)
        S1 == [S EXCEPT !.waiting = IF @ = <<>> THEN @ ELSE Tail(@)]
    IN  IF err
        THEN LET S2 == [S1 EXCEPT !.count = Dec(@)]
             IN  Dispense(IF d = 0 THEN S2 ELSE AcquireCb(S2, d, TRUE, h))
        ELSE LET S2 == [S1 EXCEPT !.inUse = @ \cup {h}]
             IN  IF d = 0 THEN Release(S2, h) ELSE AcquireCb(S2, d, FALSE, h)

\* factory.create up to its first asynchronous call.
Create(S, h) ==
    LET m == Method(S.options)
    IN  IF m = "none"
        THEN CreateCb([S EXCEPT !.client[h] = "new"], h, TRUE)
        ELSE IF m = "assertion" /\ S.options.assertion = "factory"
        THEN [S EXCEPT !.client[h] = "assert", !.method[h] = m]
        ELSE [S EXCEPT !.client[h] = "connect", !.method[h] = m,
                       !.cookie[h] = IF m = "sessionCookie"
                                     THEN S.options.sessionCookie ELSE NoCookie]

\* generic-pool: _createResource
CreateResource(S) ==
    IF NextHandle(S) > MaxHandles THEN [S EXCEPT !.ok = FALSE]
    ELSE Create([S EXCEPT !.count = @ + 1], NextHandle(S))

CreateN(S, n) == IF n = 0 THEN S ELSE CreateN(CreateResource(S), n - 1)

\* generic-pool: _ensureMinimum
EnsureMinimum(S) ==
    IF S.count < S.fmin THEN CreateN(S, S.fmin - S.count) ELSE S

\* generic-pool: destroy, which calls factory.destroy (client.end())
Destroy(S, h) ==
    EnsureMinimum([S EXCEPT !.count = Dec(@), !.avail = Remove(@, h),
                            !.inUse = @ \ {h}, !.client[h] = "ended"])

\* generic-pool: _dispense
Dispense(S) ==
    IF S.waiting = <<>> THEN S
    ELSE IF S.avail # <<>>
    THEN IF ~Validate(S, Head(S.avail))
         THEN Dispense(Destroy(S, Head(S.avail)))
         ELSE AcquireCb([S EXCEPT !.avail = Tail(@),
                                  !.inUse = @ \cup {Head(S.avail)},
                                  !.waiting = Tail(@)],
                        Head(S.waiting), FALSE, Head(S.avail))
    ELSE IF S.count < S.fmax THEN CreateResource(S) ELSE S

\* generic-pool: release
Release(S, h) ==
    IF InSeq(S.avail, h) \/ h \notin S.inUse THEN S
    ELSE Dispense([S EXCEPT !.inUse = @ \ {h}, !.avail = Append(@, h)])

\* query: the callback given to pool.acquire
AcquireCb(S, d, err, h) ==
    IF err THEN [CallCb(S, d, "err") EXCEPT !.pc[d] = "done"]
    ELSE IF IdOf(S, d) \notin S.reqQueue
    THEN [CallCb(Release([S EXCEPT !.served = Append(@, d), !.held[d] = h], h),
                 d, "null")
            EXCEPT !.pc[d] = "done"]
    ELSE [S EXCEPT !.served = Append(@, d), !.held[d] = h, !.pc[d] = "running",
                   !.listeners = IF S.req[d] = NoReq THEN @
                                 ELSE [@ EXCEPT ![S.req[d]] = Append(@, d)]]

\* query: closeCb, the 'close' listener of a dispatch that holds a client
CloseCb(S, d) == CallCb(Release(S, S.held[d]), d, "null")

\* query: exCb
ExCb(S, d, out) ==
    CallCb([Release(S, S.held[d]) EXCEPT
               !.listeners = IF S.req[d] = NoReq THEN @
                             ELSE [@ EXCEPT ![S.req[d]] = Remove(@, d)]],
           d, out)

\* (a prepare error path that forgets pool.release)
PrepareErrNoRelease(S, d) == CallCb(S, d, "err")

\* query: the error branch of client.prepare
PrepareErr(S, d) == CallCb(Release(S, S.held[d]), d, "err")


\* --------------------------------------------------------- the pool's actions
\* The credential fields a configuration may populate.
Password   == [user |-> TRUE,  password |-> TRUE,  sessionCookie |-> NoCookie,  assertion |-> "none"]
Cookie     == [user |-> TRUE,  password |-> FALSE, sessionCookie |-> CfgCookie, assertion |-> "none"]
AssertStr  == [user |-> FALSE, password |-> FALSE, sessionCookie |-> NoCookie,  assertion |-> "string"]
AssertFun  == [user |-> FALSE, password |-> FALSE, sessionCookie |-> NoCookie,  assertion |-> "factory"]
NoPassword == [user |-> TRUE,  password |-> FALSE, sessionCookie |-> NoCookie,  assertion |-> "none"]

Config(c, mn, mx, ds, ri) ==
    [cred |-> c, minPoolSize |-> mn, maxPoolSize |-> mx, defaultSchema |-> ds,
     refreshIdle |-> ri]

\* The configurations explored: a technical-user pool for every maxPoolSize
\* (unset included), with and without a default schema; pools that keep a
\* minimum, as the user pools of hdbMetaPool do (refreshIdle "off"), for the
\* assertion and the session-cookie credential; an assertion pool without a
\* minimum; a pool whose credential is incomplete.
Configs ==
    { Config(Password, 0, mx, FALSE, "unset") : mx \in 0..MaxPoolOpt }
    \cup { Config(Password, 0, 1, TRUE, "on"),
           Config(Password, 1, Unset, FALSE, "on"),
           Config(AssertStr, 1, MaxPoolOpt, FALSE, "off"),
           Config(AssertFun, 1, MaxPoolOpt, FALSE, "off"),
           Config(AssertStr, 0, MaxPoolOpt, FALSE, "on"),
           Config(Cookie, 1, MaxPoolOpt, FALSE, "off"),
           Config(NoPassword, 0, 1, FALSE, "on") }

\* (a default that leaves the idle refresh off)
RefreshIdleOffByDefault(r) == r = "on"

\* HDBPool: the refreshIdle given to generic-pool, true when the option is
\* null or undefined ("unset")
RefreshIdle(r) == IF r = "unset" THEN TRUE ELSE r = "on"

\* (a constructor that limits the first connection of the pools without minimum)
InitialMaxInverted(o) ==
    IF o.minPoolSize = 0 THEN 1
    ELSE IF o.maxPoolSize = Unset THEN 1 ELSE o.maxPoolSize

\* (a constructor without the "min > 0" limit on the first connection)
InitialMaxUnlimited(o) == IF o.maxPoolSize = Unset THEN 1 ELSE o.maxPoolSize

\* HDBPool: the maximum the pool is constructed with
InitialMax(o) ==
    IF o.minPoolSize > 0 THEN 1
    ELSE IF o.maxPoolSize = Unset THEN 1 ELSE o.maxPoolSize

\* The state the HDBPool constructor leaves before generic-pool creates the
\* initial resources (part_003 line 99, and the tests of minPoolSize 1:
\* generic-pool keeps the configured minimum and creates it at construction).
Constructed(o) ==
    [options |-> [user |-> o.cred.user, password |-> o.cred.password,
                  sessionCookie |-> o.cred.sessionCookie,
                  assertion |-> o.cred.assertion,
                  minPoolSize |-> o.minPoolSize, maxPoolSize |-> o.maxPoolSize,
                  defaultSchema |-> o.defaultSchema,
                  refreshIdle |-> o.refreshIdle],
     refreshIdle |-> RefreshIdle(o.refreshIdle),
     fmax |-> Max(InitialMax(o), 1),
     fmin |-> o.minPoolSize,
     count |-> 0, avail |-> <<>>, inUse |-> {}, waiting |-> <<>>,
     client |-> [h \in Handles |-> "absent"],
     method |-> [h \in Handles |-> "none"],
     cookie |-> [h \in Handles |-> NoCookie],
     nAuth |-> 0, nErr |-> 0,
     pc |-> [d \in Dispatches |-> "init"],
     req |-> [d \in Dispatches |-> NoReq],
     held |-> [d \in Dispatches |-> NoHandle],
     cbs |-> [d \in Dispatches |-> <<>>],
     served |-> <<>>,
     listeners |-> [r \in Requests |-> <<>>],
     reqQueue |-> {},
     reqSt |-> [r \in Requests |-> "fresh"],
     early |-> {}, dropped |-> {},
     ok |-> TRUE]

Is(S) ==
    /\ options = S.options /\ refreshIdle = S.refreshIdle
    /\ fmax = S.fmax /\ fmin = S.fmin /\ count = S.count
    /\ avail = S.avail /\ inUse = S.inUse /\ waiting = S.waiting
    /\ client = S.client /\ method = S.method /\ cookie = S.cookie
    /\ nAuth = S.nAuth /\ nErr = S.nErr /\ pc = S.pc /\ req = S.req
    /\ held = S.held /\ cbs = S.cbs /\ served = S.served
    /\ listeners = S.listeners /\ reqQueue = S.reqQueue
    /\ reqSt = S.reqSt /\ early = S.early /\ dropped = S.dropped
    /\ ok = S.ok

\* createPool / new HDBPool: the pool as constructed, initial resources requested
Init ==
    /\ \E o \in Configs : Is(EnsureMinimum(Constructed(o)))
    /\ MetaStart([minProp |-> FALSE])
    /\ cp = Built
    /\ PureIdle

\* initRequest, then pool.acquire: a dispatch is made, with request r or none
InitRequest(S, d, r) ==
    [S EXCEPT !.req[d] = r,
              !.early = IF \A h \in Handles : S.client[h] \in {"absent", "new", "assert", "connect", "failed"}
                        THEN @ \cup {d} ELSE @,
              !.reqQueue = @ \cup {IF r = NoReq THEN NumReq + d ELSE r},
              !.reqSt = IF r # NoReq /\ S.reqSt[r] = "fresh"
                        THEN [@ EXCEPT ![r] = "open"] ELSE @]

\* (an acquire that puts the new callback in front of the waiting ones)
AcquireInFront(S, d) ==
    Dispense([S EXCEPT !.waiting = <<d>> \o @, !.pc[d] = "waiting"])

\* query: pool.acquire(callback)
Acquire(S, d) == Dispense([S EXCEPT !.waiting = Enqueue(@, d), !.pc[d] = "waiting"])

StartDispatch(d, r) ==
    /\ pc[d] = "init"
    /\ \A e \in Dispatches : e < d => pc[e] # "init"
    /\ Becomes(Acquire(InitRequest(Cur, d, r), d))

\* the assertion factory calls back
AssertionOk(h) ==
    /\ client[h] = "assert"
    /\ Becomes([Cur EXCEPT !.client[h] = "connect"])

\* (a factory error after which the pool asks the factory again)
AssertionFailRetried(h) ==
    /\ client[h] = "assert"
    /\ Becomes(CreateResource([Cur EXCEPT !.client[h] = "new", !.count = Dec(@)]))

\* the assertion factory calls back with an error: 'SAML delegation error'
\* for the create callback, no connect
AssertionFail(h) ==
    /\ client[h] = "assert"
    /\ Becomes(CreateCb([Cur EXCEPT !.client[h] = "new"], h, TRUE))

\* conn: the connect callback with no error
Connected(S, h) ==
    LET S1 == [S EXCEPT
                 !.options.user = TRUE,
                 !.options.sessionCookie =
                     IF S.method[h] = "assertion" THEN S.nAuth + 1 ELSE @,
                 !.cookie[h] = IF S.method[h] = "assertion" THEN S.nAuth + 1 ELSE @,
                 !.nAuth = IF S.method[h] = "assertion" THEN @ + 1 ELSE @,
                 !.fmax = IF @ # S.options.maxPoolSize
                          THEN S.options.maxPoolSize ELSE @]
    IN  IF S.options.defaultSchema
        THEN [S1 EXCEPT !.client[h] = "schema"]
        ELSE CreateCb([S1 EXCEPT !.client[h] = "connected"], h, FALSE)

ConnectOk(h) ==
    /\ client[h] = "connect"
    /\ Becomes(Connected(Cur, h))

\* (a connect error after which the client is given to the pool all the same)
ConnectFailReleased(h) ==
    /\ client[h] = "connect"
    /\ Becomes(CreateCb([Cur EXCEPT !.client[h] = "failed"], h, FALSE))

\* conn: the connect callback with an error
ConnectFail(h) ==
    /\ client[h] = "connect"
    /\ Becomes(CreateCb([Cur EXCEPT !.client[h] = "failed"], h, TRUE))

\* setDefaultSchema: the callback of SET SCHEMA
SchemaOk(h) ==
    /\ client[h] = "schema"
    /\ Becomes(CreateCb([Cur EXCEPT !.client[h] = "connected"], h, FALSE))

\* (a SET SCHEMA error after which the client is given to the pool all the same)
SchemaFailReleased(h) ==
    /\ client[h] = "schema"
    /\ Becomes(CreateCb([Cur EXCEPT !.client[h] = "noschema"], h, FALSE))

\* the session stays open ("noschema"), the pool is told the creation failed
SchemaFail(h) ==
    /\ client[h] = "schema"
    /\ Becomes(CreateCb([Cur EXCEPT !.client[h] = "noschema"], h, TRUE))

\* create: the client's 'error' listener. The connection is lost; the listener
\* calls the create callback again.
ClientError(h) ==
    /\ client[h] \in {"schema", "connected", "noschema"}
    /\ nErr < MaxErrors
    /\ Becomes(CreateCb([Cur EXCEPT !.client[h] = IF @ = "noschema" THEN "noschemaClosed"
                                                  ELSE "closed",
                                    !.nErr = @ + 1], h, TRUE))


\* client.prepare calls back with an error
PrepareError(d) ==
    /\ pc[d] = "running"
    /\ Becomes([PrepareErr(Cur, d) EXCEPT !.pc[d] = "done"])

\* execQuery, or executeQuery in META mode: the statement's callback, with a
\* result or with an error (in any mode)
ExecDone(d, out) ==
    /\ pc[d] = "running"
    /\ Becomes([ExCb(Cur, d, out) EXCEPT !.pc[d] = "done"])

\* (a completion whose callback runs while the client is still checked out)
CompletedUnreleased(S, d, out) ==
    [CallCb(S, d, IF out = "prepare" THEN "err" ELSE out) EXCEPT !.pc[d] = "done"]

\* query: the completion of an EXEC or META dispatch, by the error branch of
\* client.prepare ("prepare") or by exCb: pool.release(client), then cb
Completed(S, d, out) ==
    [(IF out = "prepare" THEN PrepareErr(S, d) ELSE ExCb(S, d, out))
        EXCEPT !.pc[d] = "done"]

\* the completion of d, whose callback makes the dispatch e at once
CallbackDispatches(d, out, e, r) ==
    /\ pc[d] = "running"
    /\ pc[e] = "init"
    /\ \A f \in Dispatches : f < e => pc[f] # "init"
    /\ Becomes(Acquire(InitRequest(Completed(Cur, d, out), e, r), e))

\* executeQuery in STREAM mode: execute succeeded, the rows are piped
StreamStart(d) ==
    /\ pc[d] = "running"
    /\ Becomes([Cur EXCEPT !.pc[d] = "streaming"])

\* executeQuery: the 'end' event of the row stream: onend closes the result
\* set; the stages and the sink still hold rows
StreamEnd(d) ==
    /\ pc[d] = "streaming"
    /\ Becomes([Cur EXCEPT !.pc[d] = "rowsEnded"])

\* executeQuery: an 'error' event of the row stream or of a piped stage
StreamError(d) ==
    /\ pc[d] \in {"streaming", "rowsEnded"}
    /\ Becomes([ExCb(Cur, d, "err") EXCEPT !.pc[d] = "streamErr"])

\* executeQuery: the 'finish' event of the last stage
StreamFinish(d) ==
    /\ pc[d] \in {"streaming", "rowsEnded", "streamErr"}
    /\ Becomes([ExCb(Cur, d, "ok") EXCEPT !.pc[d] = "done"])

\* initRequest: the 'end' listener of the request
ReqEnd(r) ==
    /\ reqSt[r] = "open"
    /\ Becomes([Cur EXCEPT !.reqSt[r] = "ended", !.reqQueue = @ \ {r}])

\* initRequest: the 'error' listener of the request
ReqError(r) ==
    /\ reqSt[r] = "open"
    /\ Becomes([Cur EXCEPT !.reqSt[r] = "errored", !.reqQueue = @ \ {r}])

RECURSIVE CloseAll(_, _)
CloseAll(S, ls) == IF ls = <<>> THEN S ELSE CloseAll(CloseCb(S, Head(ls)), Tail(ls))

\* The 'close' event of the request: initRequest's listener first, then the
\* closeCb of every dispatch that registered one, in the order registered.
ReqClose(r) ==
    /\ reqSt[r] \in {"open", "ended", "errored"}
    /\ Becomes(CloseAll([Cur EXCEPT !.reqSt[r] = "closed", !.reqQueue = @ \ {r},
                                   !.dropped = @ \cup {d \in Dispatches :
                                       req[d] = r /\ pc[d] = "waiting"}],
                        listeners[r]))

\* generic-pool: removeIdle, when the k resources idle longest have timed out
RECURSIVE DestroyAll(_, _)
DestroyAll(S, hs) == IF hs = <<>> THEN S ELSE DestroyAll(Destroy(S, Head(hs)), Tail(hs))

ToRemove(S, k) ==
    SubSeq(S.avail, 1, IF S.refreshIdle THEN k
                       ELSE IF S.count > S.fmin THEN Min(k, S.count - S.fmin) ELSE 0)

IdleSweep(k) ==
    /\ k \in 1..Len(avail)
    /\ ToRemove(Cur, k) # <<>>
    /\ Becomes(DestroyAll(Cur, ToRemove(Cur, k)))

Next ==
    \/ \E d \in Dispatches, r \in Requests \cup {NoReq} : StartDispatch(d, r)
    \/ \E h \in Handles : AssertionOk(h)
    \/ \E h \in Handles : AssertionFail(h)
    \/ \E h \in Handles : ConnectOk(h)
    \/ \E h \in Handles : ConnectFail(h)
    \/ \E h \in Handles : SchemaOk(h)
    \/ \E h \in Handles : SchemaFail(h)
    \/ \E h \in Handles : ClientError(h)
    \/ \E d \in Dispatches : PrepareError(d)
    \/ \E d \in Dispatches, out \in {"ok", "err"} : ExecDone(d, out)
    \/ \E d, e \in Dispatches, out \in {"ok", "err", "prepare"}, r \in Requests \cup {NoReq} :
           CallbackDispatches(d, out, e, r)
    \/ \E d \in Dispatches : StreamStart(d)
    \/ \E d \in Dispatches : StreamEnd(d)
    \/ \E d \in Dispatches : StreamError(d)
    \/ \E d \in Dispatches : StreamFinish(d)
    \/ \E r \in Requests : ReqEnd(r)
    \/ \E r \in Requests : ReqError(r)
    \/ \E r \in Requests : ReqClose(r)
    \/ \E k \in 1..MaxHandles : IdleSweep(k)

Spec == Init /\ [][Next]_vars

\* The pool with its callbacks called in the end: every client, statement and
\* stream calls back, and every request that was opened is closed at last.
FairSpec == Spec /\ WF_vars(Next) /\ \A r \in Requests : WF_vars(ReqClose(r))

\* ------------------------------------------------- createPool, any options
\* Every way of populating the credential fields of the options.
Credentials ==
    [user : BOOLEAN, password : BOOLEAN, sessionCookie : {NoCookie, CfgCookie},
     assertion : {"none", "string", "factory"}]

\* (a sanity check that only looks for the host)
HasHost(c) == c.host

\* createPool: the sanity check of the options
HasHostAndPort(c) == c.host /\ c.port

\* The options object createPool is called with: any credential fields, with
\* or without host and port, with or without a minimum.
CreateInit ==
    /\ \E c \in Credentials, mn \in {0, 1} :
           Is(Constructed(Config(c, mn, MaxPoolOpt, FALSE, "unset")))
    /\ \E hp \in [host : BOOLEAN, port : BOOLEAN] :
           cp = [host |-> hp.host, port |-> hp.port, stage |-> "options"]
    /\ MetaStart([minProp |-> FALSE])
    /\ PureIdle

\* createPool: nothing is returned without host or port; else new HDBPool,
\* whose generic-pool creates the minimum at once
CreatePool ==
    /\ cp.stage = "options"
    /\ UNCHANGED <<metaVars, pureVars>>
    /\ IF HasHostAndPort(cp)
       THEN cp' = [cp EXCEPT !.stage = "pool"] /\ PoolBecomes(EnsureMinimum(Cur))
       ELSE cp' = [cp EXCEPT !.stage = "nopool"] /\ UNCHANGED poolVars

\* hpool.pool.acquire / a dispatch on the pool createPool returned
AcquireBuilt(d) ==
    /\ cp.stage = "pool"
    /\ StartDispatch(d, NoReq)

\* the assertion factory of a pool createPool returned calls back
FactoryDone(h) ==
    /\ cp.stage = "pool"
    /\ AssertionOk(h) \/ AssertionFail(h)

CreateNext ==
    \/ CreatePool
    \/ \E d \in Dispatches : AcquireBuilt(d)
    \/ \E h \in Handles : FactoryDone(h)

CreateSpec == CreateInit /\ [][CreateNext]_vars

\* ------------------------------------------ the DSV stringifier (hdbPool.js)
\* Text values are sequences of characters: a letter, the two separators, the
\* double quote and the two line-break characters.
MaxText   == 3          \* longest text value explored
NumFields == 2          \* columns of the row
DQuote == "\""
LF     == "\n"
CR     == "\r"
Chars  == {"a", ",", ";", DQuote, LF, CR}
Texts  == UNION {[1..n -> Chars] : n \in 0..MaxText}
Separators == {",", ";"}

Contains(v, ch) == \E i \in 1..Len(v) : v[i] = ch

\* v.replace(ESCAPE_REGEXP, '""'), the regular expression being global
RECURSIVE DoubleQuotes(_)
DoubleQuotes(v) ==
    IF v = <<>> THEN <<>>
    ELSE (IF Head(v) = DQuote THEN <<DQuote, DQuote>> ELSE <<Head(v)>>)
         \o DoubleQuotes(Tail(v))

\* (a replace that doubles the first quote only)
RECURSIVE DoubleFirstQuote(_)
DoubleFirstQuote(v) ==
    IF v = <<>> THEN <<>>
    ELSE IF Head(v) = DQuote THEN <<DQuote, DQuote>> \o Tail(v)
    ELSE <<Head(v)>> \o DoubleFirstQuote(Tail(v))

\* (a dsvquote whose replace is not global)
DsvquoteFirstOnly(v, sep) ==
    IF v # <<>> /\ (Contains(v, sep) \/ Contains(v, DQuote)
                    \/ Contains(v, LF) \/ Contains(v, CR))
    THEN <<DQuote>> \o DoubleFirstQuote(v) \o <<DQuote>>
    ELSE v

\* dsvquote
Dsvquote(v, sep) ==
    IF v # <<>> /\ (Contains(v, sep) \/ Contains(v, DQuote)
                    \/ Contains(v, LF) \/ Contains(v, CR))
    THEN <<DQuote>> \o DoubleQuotes(v) \o <<DQuote>>
    ELSE v

\* the stringify function createDsvStringifier generates: line.join(sep)
RECURSIVE Join(_, _)
Join(fs, sep) ==
    IF Len(fs) = 1 THEN Head(fs)
    ELSE Head(fs) \o <<sep>> \o Join(Tail(fs), sep)

StringifyRow(row, sep) == Join([i \in 1..Len(row) |-> Dsvquote(row[i], sep)], sep)

\* An RFC 4180 reader on one line: the fields of the record that starts at
\* character i. A line break outside quotes ends the record; what follows it,
\* and a quoted field that is not closed, are reported as a field "broken"
\* (which no text value equals).
Broken == <<"broken">>
RECURSIVE Rfc4180(_, _, _, _, _, _)
Rfc4180(t, sep, i, st, cur, out) ==
    IF i > Len(t)
    THEN IF st = "quoted" THEN Append(out, Broken) ELSE Append(out, cur)
    ELSE LET ch == t[i] IN
         IF st = "start"
         THEN IF ch = DQuote THEN Rfc4180(t, sep, i + 1, "quoted", <<>>, out)
              ELSE IF ch = sep THEN Rfc4180(t, sep, i + 1, "start", <<>>, Append(out, <<>>))
              ELSE IF ch \in {LF, CR} THEN Append(Append(out, cur), Broken)
              ELSE Rfc4180(t, sep, i + 1, "plain", <<ch>>, out)
         ELSE IF st = "plain"
         THEN IF ch = sep THEN Rfc4180(t, sep, i + 1, "start", <<>>, Append(out, cur))
              ELSE IF ch \in {LF, CR} THEN Append(Append(out, cur), Broken)
              ELSE Rfc4180(t, sep, i + 1, "plain", Append(cur, ch), out)
         ELSE IF st = "quoted"
         THEN IF ch = DQuote THEN Rfc4180(t, sep, i + 1, "closing", cur, out)
              ELSE Rfc4180(t, sep, i + 1, "quoted", Append(cur, ch), out)
         ELSE \* "closing": a quote was read inside a quoted field
              IF ch = DQuote THEN Rfc4180(t, sep, i + 1, "quoted", Append(cur, DQuote), out)
              ELSE IF ch = sep THEN Rfc4180(t, sep, i + 1, "start", <<>>, Append(out, cur))
              ELSE IF ch \in {LF, CR} THEN Append(Append(out, cur), Broken)
              ELSE Append(out, Broken)

ReadRecord(t, sep) == Rfc4180(t, sep, 1, "start", <<>>, <<>>)

\* a result row of text columns, and the separator of the stringifier
DsvInit ==
    /\ \E row \in [1..NumFields -> Texts], sep \in Separators :
           dsv = [stage |-> "row", row |-> row, sep |-> sep]
    /\ Is(Constructed(Config(Password, 0, 1, FALSE, "unset")))
    /\ MetaStart([minProp |-> FALSE])
    /\ cp = Built
    /\ ex = [stage |-> "none"]
    /\ lob = [stage |-> "none"]

\* the stringifier writes the line of the row
Stringify ==
    /\ dsv.stage = "row"
    /\ dsv' = [stage |-> "line", row |-> dsv.row, sep |-> dsv.sep,
               line |-> StringifyRow(dsv.row, dsv.sep)]
    /\ UNCHANGED <<poolVars, metaVars, cp, ex, lob>>

\* the consumer parses the line
Read ==
    /\ dsv.stage = "line"
    /\ dsv' = [stage |-> "read", row |-> dsv.row, sep |-> dsv.sep,
               line |-> dsv.line, fields |-> ReadRecord(dsv.line, dsv.sep)]
    /\ UNCHANGED <<poolVars, metaVars, cp, ex, lob>>

DsvNext == Stringify \/ Read

DsvSpec == DsvInit /\ [][DsvNext]_vars

\* ------------------------------------------------- execQuery (hdbPool.js)
\* What statement.exec calls back with. rows: nothing (a DDL statement), the
\* rows or output parameters, or the number of affected rows. dummyRows, the
\* first result set of a procedure call: not there, an empty array, a row
\* without errmsg, or a row whose errmsg is a text that does not parse
\* ("notJson"), or parses to an object with status 'success' ("success"), to
\* another object ("failure"), to null ("jsonNull"), to 0, false or the empty
\* string ("jsonFalsy"), or to another number, string or true ("jsonScalar").
RowsKinds   == {"undefined", "rows", "count"}
Payloads    == {"notJson", "success", "failure", "jsonNull", "jsonFalsy", "jsonScalar"}
DummyRows   == {"undefined", "empty", "noErrmsg"} \cup Payloads
ExecResults == [err : BOOLEAN, rows : RowsKinds, dummyRows : DummyRows, resp : BOOLEAN]

\* dummyRows && dummyRows[0].errmsg: reading errmsg of the first row throws
\* when the array is empty
ErrmsgThrows(r) == r.dummyRows = "empty"
HasErrmsg(r)    == r.dummyRows \in Payloads

\* exception after the try block: the parsed payload, or dummyRows itself
ExceptionOf(r) == IF r.dummyRows = "notJson" THEN "dummyRows" ELSE r.dummyRows

\* execQuery: the callback of statement.exec. threw: a TypeError left the
\* callback; else exCb was called with (err, rows), and sent tells whether
\* resp.send was called
ExecCb(r) ==
    IF r.err
    THEN [threw |-> FALSE, called |-> TRUE, err |-> "err", rows |-> "undefined", sent |-> FALSE]
    ELSE IF ErrmsgThrows(r) \/ r.dummyRows = "jsonNull"
    THEN [threw |-> TRUE, called |-> FALSE, err |-> "null", rows |-> "undefined", sent |-> FALSE]
    ELSE IF ~HasErrmsg(r)
    THEN [threw |-> FALSE, called |-> TRUE, err |-> "null", rows |-> r.rows, sent |-> r.resp]
    ELSE IF ExceptionOf(r) = "success"
    THEN [threw |-> FALSE, called |-> TRUE, err |-> "null", rows |-> "success", sent |-> r.resp]
    ELSE [threw |-> FALSE, called |-> TRUE, err |-> ExceptionOf(r), rows |-> r.rows,
          sent |-> r.resp /\ ExceptionOf(r) = "jsonFalsy"]

\* statement.exec is called
ExecInit ==
    /\ \E r \in ExecResults : ex = [stage |-> "exec", res |-> r]
    /\ Is(Constructed(Config(Password, 0, 1, FALSE, "unset")))
    /\ MetaStart([minProp |-> FALSE])
    /\ cp = Built
    /\ dsv = [stage |-> "none"]
    /\ lob = [stage |-> "none"]

\* statement.exec calls back
ExecCallback ==
    /\ ex.stage = "exec"
    /\ ex' = [stage |-> "called", res |-> ex.res, did |-> ExecCb(ex.res)]
    /\ UNCHANGED <<poolVars, metaVars, cp, dsv, lob>>

ExecNext == ExecCallback

ExecSpec == ExecInit /\ [][ExecNext]_vars

\* ------------------------------------------- transformLobs (transformLobs.js)
NumLobRows == 2         \* rows written to the transform stream
NumCols    == 2         \* columns of a row
NumChunks  == 2         \* chunks the read stream of a Lob delivers
LobRows == 1..NumLobRows
LobCols == 1..NumCols

\* the values of a column: a value that is no Lob, a Lob, the text of the
\* chunks read, the string put in place of a Lob that could not be read
PlainValue == <<"plain">>
LobHandle  == <<"Lob">>
LobText    == [i \in 1..NumChunks |-> "chunk"]
Sentinel   == <<"Error while reading Lob!">>

\* the callback of async.forEachOf's iterator for column c: when it was the
\* last column, callback(err, data), then me.push(result) and done()
ColumnDone(L, c) ==
    LET L1 == [L EXCEPT !.rd[c] = "done"]
    IN  IF \A k \in LobCols : L1.rd[k] = "done"
        THEN [L1 EXCEPT !.busy = FALSE,
                        !.out = Append(@, [data |-> L1.data, failed |-> L1.failed])]
        ELSE L1

\* (an 'error' listener that passes the error to async.forEachOf, which calls
\* its final callback at once and ignores the columns still being read)
OnLobErrorFailing(L, c) ==
    [L EXCEPT !.rd = [k \in LobCols |-> "done"],
              !.failed = @ \cup {c},
              !.busy = FALSE,
              !.out = Append(@, [data |-> L.data, failed |-> L.failed \cup {c}])]

\* transform: the 'error' listener of the read stream of column c
OnLobError(L, c) ==
    ColumnDone([L EXCEPT !.data[c] = Sentinel, !.failed = @ \cup {c}], c)

\* transform: the 'end' listener of the read stream of column c
OnLobEnd(L, c) == ColumnDone([L EXCEPT !.data[c] = L.chunks[c]], c)

\* _transform(chunk) for a row: a read stream for every Lob column, the other
\* columns are done at once
Transform(L, row) ==
    LET L1 == [L EXCEPT !.n = @ + 1, !.busy = TRUE, !.failed = {},
                        !.data = [c \in LobCols |-> IF row[c] = "lob" THEN LobHandle
                                                    ELSE PlainValue],
                        !.chunks = [c \in LobCols |-> <<>>],
                        !.rd = [c \in LobCols |-> IF row[c] = "lob" THEN "reading"
                                                  ELSE "done"]]
    IN  IF \A c \in LobCols : row[c] # "lob"
        THEN [L1 EXCEPT !.busy = FALSE,
                        !.out = Append(@, [data |-> L1.data, failed |-> {}])]
        ELSE L1

\* the rows of a result set, every column a Lob or not
LobInit ==
    /\ \E rows \in [LobRows -> [LobCols -> {"plain", "lob"}]] :
           lob = [stage |-> "stream", rows |-> rows, n |-> 0, busy |-> FALSE,
                  data |-> [c \in LobCols |-> PlainValue],
                  chunks |-> [c \in LobCols |-> <<>>],
                  rd |-> [c \in LobCols |-> "done"],
                  failed |-> {}, out |-> <<>>]
    /\ Is(Constructed(Config(Password, 0, 1, FALSE, "unset")))
    /\ MetaStart([minProp |-> FALSE])
    /\ cp = Built
    /\ dsv = [stage |-> "none"]
    /\ ex = [stage |-> "none"]

LobBecomes(L) == lob' = L /\ UNCHANGED <<poolVars, metaVars, cp, dsv, ex>>

\* the stream calls _transform with the next row once the row before is done
TransformRow ==
    /\ lob.stage = "stream" /\ ~lob.busy /\ lob.n < NumLobRows
    /\ LobBecomes(Transform(lob, lob.rows[lob.n + 1]))

\* 'readable' of the read stream of column c: a chunk is read
LobReadable(c) ==
    /\ lob.stage = "stream" /\ lob.busy /\ lob.rd[c] = "reading"
    /\ Len(lob.chunks[c]) < NumChunks
    /\ LobBecomes([lob EXCEPT !.chunks[c] = Append(@, "chunk")])

\* 'error' of the read stream of column c; the stream emits nothing after it
LobError(c) ==
    /\ lob.stage = "stream" /\ lob.busy /\ lob.rd[c] = "reading"
    /\ LobBecomes(OnLobError(lob, c))

\* 'end' of the read stream of column c, after its last chunk
LobEnd(c) ==
    /\ lob.stage = "stream" /\ lob.busy /\ lob.rd[c] = "reading"
    /\ Len(lob.chunks[c]) = NumChunks
    /\ LobBecomes(OnLobEnd(lob, c))

LobNext ==
    \/ TransformRow
    \/ \E c \in LobCols : LobReadable(c)
    \/ \E c \in LobCols : LobError(c)
    \/ \E c \in LobCols : LobEnd(c)

LobSpec == LobInit /\ [][LobNext]_vars

\* --------------------------------------------- user pools (hdbMetaPool.js)
MCur == [sessCookie |-> sessCookie, userPools |-> userPools, upool |-> upool,
         mq |-> mq, hana |-> hana, store |-> store, lo |-> lo, cleaned |-> cleaned]

MBecomes(S) ==
    /\ sessCookie' = S.sessCookie /\ userPools' = S.userPools
    /\ upool' = S.upool /\ mq' = S.mq /\ hana' = S.hana
    /\ store' = S.store /\ lo' = S.lo
    /\ cleaned' = S.cleaned
    /\ UNCHANGED <<lib, poolVars, cp, pureVars>>

\* storeIntoSession: the session's cookie becomes the pool's, when the pool
\* has one and the request has a session with a passport user
StoreIntoSession(S, s, c) ==
    IF c # NoCookie /\ s \in UserSessions THEN [S EXCEPT !.sessCookie[s] = c] ELSE S

\* pool.getPoolSize(): the clients created (or being created) and not destroyed
PoolSize(S, p) == IF S.upool[p].h = "none" THEN 0 ELSE 1

\* factory.create: password, else the cookie once options has one, else the assertion
UCreate(S, p) ==
    [S EXCEPT !.upool[p].h = "connecting",
              !.upool[p].conn = IF S.upool[p].authMethod = "password" THEN "password"
                                ELSE IF S.upool[p].cookie # NoCookie
                                THEN "sessionCookie" ELSE "assertion"]

\* the acquire callback of waiter j is given the client: the pool's cookie is
\* stored into the session of the query's request, then the statement runs
UGrant(S, p, j) ==
    IF IsProbe(j)
    THEN [S EXCEPT !.upool[p].h = "busy", !.mq[QueryOf(j)].probe = "running"]
    ELSE StoreIntoSession([S EXCEPT !.upool[p].h = "busy", !.mq[j].pc = "running"],
                          S.mq[j].sess, S.upool[p].cookie)

UDispense(S, p) ==
    LET u == S.upool[p] IN
    IF u.waiting = <<>> THEN S
    ELSE IF u.h = "idle"
         THEN UGrant([S EXCEPT !.upool[p].waiting = Tail(@)], p, Head(u.waiting))
    ELSE IF u.h = "none" THEN UCreate(S, p)
    ELSE S

URelease(S, p) == UDispense([S EXCEPT !.upool[p].h = "idle"], p)

\* the pool destroys its client and creates a replacement while below min
UDestroy(S, p) ==
    LET S1 == [S EXCEPT !.upool[p].h = "none"]
    IN  IF S1.upool[p].min > 0 THEN UCreate(S1, p) ELSE S1

\* pool.destroyAllNow(): the idle clients are destroyed
DestroyAllNow(S, p) == IF S.upool[p].h = "idle" THEN UDestroy(S, p) ELSE S

\* (a _clean that leaves the pool in the registry)
CleanKeepingPool(S, q) ==
    [S EXCEPT !.sessCookie = IF S.mq[q].sess \in UserSessions
                             THEN [@ EXCEPT ![S.mq[q].sess] = NoCookie] ELSE @,
              !.mq[q].pc = "done", !.mq[q].out = S.mq[q].err]

\* _clean: the registry forgets the pool, the cookie is cleared in the session
\* of the request whose query failed, the caller gets the error _drain was
\* given. Without userPools[userId] its first statement throws
Clean(S, q) ==
    LET c == S.upool[S.mq[q].pool].cookie
    IN  IF ~S.userPools.registered
        THEN [S EXCEPT !.mq[q].pc = "done", !.mq[q].out = "throw"]
        ELSE
        [S EXCEPT !.userPools.pool = NoPool,
                  !.sessCookie = IF S.mq[q].sess \in UserSessions
                                 THEN [@ EXCEPT ![S.mq[q].sess] = NoCookie] ELSE @,
                  !.cleaned = IF c # NoCookie THEN @ \cup {c} ELSE @,
                  !.mq[q].pc = "done", !.mq[q].out = S.mq[q].err]

\* _drain(error): p.min = 0, then clean at once when the pool is empty, else
\* drain first
Drain(S, q, e) ==
    LET p  == S.mq[q].pool
        S1 == [S EXCEPT !.upool[p].min = IF lib.minProp THEN 0 ELSE @,
                        !.mq[q].err = e]
    IN  IF PoolSize(S1, p) = 0 THEN Clean(S1, q)
        ELSE [S1 EXCEPT !.upool[p].draining = TRUE, !.mq[q].pc = "draining"]

\* detectSAMLerror: the assertion is tried in a statement on the environment pool
DetectSAMLerror(S, q) ==
    UDispense([S EXCEPT !.mq[q].pc = "detect", !.mq[q].probe = "waiting",
                        !.upool[EnvPool].waiting = Append(@, Probe(q))], EnvPool)

\* the callback detectSAMLerror gives to the environment pool: when the
\* statement succeeded the environment pool is flushed; then cb(err), that is
\* _drain(err), and delete error.assertion throws when err is null
DetectSAMLerrorCb(S, q, res) ==
    IF res = "ok"
    THEN [DestroyAllNow(S, EnvPool) EXCEPT !.mq[q].probe = "accepted",
                                           !.mq[q].pc = "done", !.mq[q].out = "throw"]
    ELSE Drain([S EXCEPT !.mq[q].probe = "rejected"], q, "probeErr")

\* (a callback that treats every error as an expired session)
CallbackFlushingAlways(S, q, res, withAssertion) ==
    IF res = "ok" THEN [S EXCEPT !.mq[q].pc = "done", !.mq[q].out = res]
    ELSE Drain(S, q, res)

\* the callback queryUserPool gives to the pool's query: res is "ok", "err"
\* (any other error), "auth" (code 10) or "principal" (code 591, invalid
\* principal id)
Callback(S, q, res, withAssertion) ==
    IF res \notin {"auth", "principal"}
    THEN [S EXCEPT !.mq[q].pc = "done", !.mq[q].out = res]
    ELSE IF res = "principal" THEN Drain(S, q, res)
    ELSE IF S.upool[S.mq[q].pool].authMethod = "assertion" /\ withAssertion
         THEN DetectSAMLerror(S, q)
    ELSE Drain(S, q, res)

\* a pool calls back the waiter j it dequeued or whose statement returned
Deliver(S, p, j, res, withAssertion) ==
    IF IsProbe(j) THEN DetectSAMLerrorCb(S, QueryOf(j), res)
    ELSE IF p = EnvPool THEN [S EXCEPT !.mq[j].pc = "done", !.mq[j].out = res]
    ELSE Callback(S, j, res, withAssertion)

\* Conf.db[env] is there: for the environment, and for the key 'default'
ConfDb(env) == env \in {"HDB", "default"}

\* the environments: the keys of Conf.db without 'default', for which
\* initEnvPools builds envPools[env]
EnvNames == {"HDB"}

\* env.match(/^[A-Za-z0-9_]+$/)
IsWord(env) == env \in {"HDB", "NOPE", "default"}

\* query: the validation of the environment
EnvAccepted(env) == env # "" /\ IsWord(env) /\ ConfDb(env)

\* (a selection that prefers the assertion to the cached cookie)
PoolAuthAssertionFirst(S, s, env) ==
    IF s \in Sessions THEN "assertion"
    ELSE IF env \in EnvNames /\ S.sessCookie[s] # NoCookie THEN "sessionCookie"
    ELSE "none"

\* createUserPool: poolAuthOpts.method, from passport.user[env] (HANAUser and
\* HANAsessionCookie, stored together) and passport.user.assertion
PoolAuthMethod(S, s, env) ==
    IF env \in EnvNames /\ S.sessCookie[s] # NoCookie THEN "sessionCookie"
    ELSE IF s \in Sessions THEN "assertion"
    ELSE "none"

\* the pool createUserPool builds for a request of session s
NewUserPool(S, s, env) ==
    LET m == PoolAuthMethod(S, s, env)
    IN  [authMethod |-> m,
         cookie |-> IF m = "sessionCookie" THEN S.sessCookie[s] ELSE NoCookie,
         req |-> s,
         h |-> "none", conn |-> "none", waiting |-> <<>>,
         min |-> 1, refreshIdle |-> FALSE,
         draining |-> FALSE, drainFor |-> {},
         stale |-> m = "sessionCookie" /\ S.sessCookie[s] \in S.cleaned]

\* createUserPool: the user and the session are registered, lastAccess is set
Register(S, s) ==
    [S EXCEPT !.userPools.registered = TRUE,
              !.userPools.sessions = @ \cup {s},
              !.userPools.fresh = TRUE]

\* (a createUserPool that does not look for the registered pool)
CreateUserPoolAnew(S, s, env, p) ==
    LET S1 == Register(S, s)
        u  == NewUserPool(S, s, env)
        S2 == [S1 EXCEPT !.upool[p] = u, !.userPools.pool = p]
    IN  [st |-> UCreate(S2, p), err |-> "none"]

\* createUserPool for a request of session s; p is the pool built if none is
\* there. err is what cb is called with, or "throw": for the key 'default'
\* createPool is given no host and returns nothing, and setting _authMethod
\* on it throws
CreateUserPool(S, s, env, p) ==
    LET S1 == Register(S, s)
        u  == NewUserPool(S, s, env)
        S2 == [S1 EXCEPT !.upool[p] = u, !.userPools.pool = p]
    IN  IF env \in EnvNames /\ S1.userPools.pool # NoPool
        THEN [st |-> S1, err |-> "none"]
        ELSE IF u.authMethod = "none" THEN [st |-> S1, err |-> "unsupported"]
        ELSE IF env \notin EnvNames THEN [st |-> S1, err |-> "throw"]
        ELSE [st |-> IF u.min > 0 THEN UCreate(S2, p) ELSE S2, err |-> "none"]

NextPool == 1 + Cardinality({p \in Pools : upool[p].authMethod # "none"})

\* pool.exec of pool p for query q: initRequest stores the pool's cookie into
\* the session, then the query waits for the client (acquire throws on a pool
\* that is draining)
PoolQuery(S, p, q) ==
    LET S1 == StoreIntoSession([S EXCEPT !.mq[q].pool = p], S.mq[q].sess,
                               S.upool[p].cookie)
    IN  IF S1.upool[p].draining
        THEN [S1 EXCEPT !.mq[q].pc = "done", !.mq[q].out = "throw"]
        ELSE UDispense([S1 EXCEPT !.upool[p].waiting = Append(@, q),
                                  !.mq[q].pc = "waiting"], p)

\* queryUserPool: the user's pool, built when there is none
QueryUserPool(S, q, np) ==
    LET r == CreateUserPool(S, S.mq[q].sess, S.mq[q].env, np)
    IN  IF r.err # "none"
        THEN [r.st EXCEPT !.mq[q].pc = "done", !.mq[q].out = r.err]
        ELSE PoolQuery(r.st, r.st.userPools.pool, q)

\* queryEnvPool: envPools[env][querymode](...), which throws when there is no
\* envPools[env]
QueryEnvPool(S, q) ==
    IF S.mq[q].env \in EnvNames THEN PoolQuery(S, EnvPool, q)
    ELSE [S EXCEPT !.mq[q].pc = "done", !.mq[q].out = "throw"]

\* (a routing that sends every request with a passport user to the user pool)
RouteByPassport(s, saml) == s \in UserSessions

\* query: the user pool for a SAML-authenticated request whose session holds
\* a passport user
RouteToUserPool(s, saml) == saml /\ s \in UserSessions

\* query, for a request of session s (or without request), SAMLAuthenticated
\* or not, whose environment is env. A query that is refused for its
\* environment does not read its request any further.
Query(q, s, saml, env) ==
    /\ mq[q].pc = "init"
    /\ \A e \in Queries : e < q => mq[e].pc # "init"
    /\ userPools.pool # NoPool \/ NextPool <= MaxPools
    /\ s \in UserSessions => s \in store
    /\ LET S1 == [MCur EXCEPT !.mq[q].sess = s, !.mq[q].saml = saml,
                              !.mq[q].env = env]
       IN  MBecomes(IF ~EnvAccepted(env)
                    THEN [MCur EXCEPT !.mq[q].env = env, !.mq[q].pc = "done",
                                      !.mq[q].out = "invalidEnv"]
                    ELSE IF RouteToUserPool(s, saml) THEN QueryUserPool(S1, q, NextPool)
                    ELSE QueryEnvPool(S1, q))

\* connect succeeds: an assertion login issues a cookie, kept in options and
\* stored into the session of the request the pool was built for
UserConnectOk(p) ==
    /\ upool[p].h = "connecting"
    /\ upool[p].conn = "sessionCookie" => upool[p].cookie \in hana.valid
    /\ upool[p].conn = "assertion" => hana.issued < MaxCookies
    /\ LET k  == hana.issued + 1
           S1 == IF upool[p].conn = "assertion"
                 THEN StoreIntoSession(
                          [MCur EXCEPT !.hana = [valid |-> @.valid \cup {k}, issued |-> k],
                                       !.upool[p].cookie = k],
                          upool[p].req, k)
                 ELSE MCur
       IN  MBecomes(IF upool[p].waiting = <<>>
                    THEN [S1 EXCEPT !.upool[p].h = "idle"]
                    ELSE UGrant([S1 EXCEPT !.upool[p].waiting = Tail(@)],
                                p, Head(upool[p].waiting)))

\* connect fails, with code 10 ("auth"), code 591 ("principal", for an
\* assertion) or another error: the head waiter's callback gets the error,
\* then the pool dispenses again
UserConnectFail(p, code) ==
    /\ upool[p].h = "connecting"
    /\ code = "auth" /\ upool[p].conn = "sessionCookie" => upool[p].cookie \notin hana.valid
    /\ code = "principal" => upool[p].conn = "assertion"
    /\ LET S1 == [MCur EXCEPT !.upool[p].h = "none"]
       IN  MBecomes(IF upool[p].waiting = <<>> THEN S1
                    ELSE UDispense(Deliver([S1 EXCEPT !.upool[p].waiting = Tail(@)],
                                           p, Head(upool[p].waiting), code,
                                           upool[p].conn = "assertion"), p))

\* the statement of detectSAMLerror returns: exCb releases the client of the
\* environment pool, then calls back
DetectSAMLerrorDone(q, rejected) ==
    /\ mq[q].probe = "running"
    /\ MBecomes(DetectSAMLerrorCb(URelease(MCur, EnvPool), q,
                                  IF rejected THEN "err" ELSE "ok"))

\* the statement of q returns: exCb releases the client, then calls back
UserExecDone(q, res) ==
    /\ mq[q].pc = "running"
    /\ res = "auth" => /\ mq[q].pool # EnvPool
                       /\ upool[mq[q].pool].cookie \notin hana.valid
    /\ MBecomes(Deliver(URelease(MCur, mq[q].pool), mq[q].pool, q, res, FALSE))

\* p.drain calls back once nobody waits and every client is idle:
\* destroyAllNow, then _clean
DrainDone(q) ==
    /\ mq[q].pc = "draining"
    /\ upool[mq[q].pool].waiting = <<>>
    /\ upool[mq[q].pool].h \in {"idle", "none"}
    /\ MBecomes(Clean(DestroyAllNow(MCur, mq[q].pool), q))

\* HANA ends the session a cookie stands for
CookieExpires(k) ==
    /\ k \in hana.valid
    /\ MBecomes([MCur EXCEPT !.hana.valid = @ \ {k}])

\* the idle timeout of a pool: the idle client is destroyed when the pool
\* refreshes its idle clients or is above its minimum
UserIdleSweep(p) ==
    /\ upool[p].h = "idle"
    /\ upool[p].refreshIdle \/ upool[p].min = 0
    /\ MBecomes([MCur EXCEPT !.upool[p].h = "none"])

\* ------------------------------------- query, with any request (hdbMetaPool.js)
\* The queries of every kind of request, for every value of the environment,
\* on pools whose connections and statements succeed or fail with an error
\* that needs no recovery.
QueryInit ==
    /\ Is(Constructed(Config(Password, 0, 1, FALSE, "unset")))
    /\ MetaStart([minProp |-> FALSE])
    /\ cp = Built
    /\ PureIdle

QueryNext ==
    \/ \E q \in Queries, s \in UserSessions \cup {NoSession, AnonSession},
          saml \in BOOLEAN, env \in Envs : Query(q, s, saml, env)
    \/ \E p \in AllPools : UserConnectOk(p)
    \/ \E p \in AllPools : UserConnectFail(p, "err")
    \/ \E q \in Queries, res \in {"ok", "err"} : UserExecDone(q, res)

QuerySpec == QueryInit /\ [][QueryNext]_vars

\* ------------------------------ reaper and logout (hdbMetaPool.js)
NumRegQueries == 2      \* queries of the user explored next to the reaper and the logouts

\* logout: next() is called
NextCalled(S, s) == [S EXCEPT !.lo[s].pc = "done", !.lo[s].nexts = @ + 1]

\* the callback drainUserPool was given: logout's next, or the reaper's log
DrainCb(S, who) == IF who = Reaper THEN S ELSE NextCalled(S, who)

\* drainUserPool(userId, cb), called by who. Without userPools[userId] the
\* test '!userPools[userId] && !userPools[userId].pools' throws; else the user
\* is unregistered and the pool, when there is one, is drained with min 0
DrainUserPool(S, who) ==
    IF ~S.userPools.registered
    THEN IF who = Reaper THEN S ELSE [S EXCEPT !.lo[who].pc = "threw"]
    ELSE LET p  == S.userPools.pool
             S1 == [S EXCEPT !.userPools = Unregistered]
         IN  IF p = NoPool THEN DrainCb(S1, who)
             ELSE LET S2 == [S1 EXCEPT !.upool[p].min = IF lib.minProp THEN 0 ELSE @,
                                       !.upool[p].draining = TRUE,
                                       !.upool[p].drainFor = @ \cup {who}]
                  IN  IF who = Reaper THEN S2
                      ELSE [S2 EXCEPT !.lo[who].pc = "draining"]

RECURSIVE DrainCbs(_, _)
DrainCbs(S, ws) ==
    IF ws = {} THEN S
    ELSE LET w == CHOOSE x \in ws : TRUE
         IN  DrainCbs(DrainCb(S, w), ws \ {w})

\* (a reaper that leaves the sessions as they are)
CleanupKeepingSessions(S) ==
    IF S.userPools.registered /\ ~S.userPools.fresh
    THEN DrainUserPool(S, Reaper)
    ELSE S

\* cleanupUserPools: a user whose lastAccess is older than the timeout is
\* drained, and passport.user[env] is deleted in every session registered
\* for the user
CleanupUserPools(S) ==
    IF S.userPools.registered /\ ~S.userPools.fresh
    THEN [DrainUserPool(S, Reaper) EXCEPT
             !.sessCookie = [s \in UserSessions |->
                                IF s \in S.userPools.sessions THEN NoCookie ELSE @[s]]]
    ELSE S

\* the timer of initUserPools fires
Reap ==
    /\ userPools.registered
    /\ MBecomes(CleanupUserPools(MCur))

\* Conf.userpool.USER_TIMEOUT passes without a query of the user
TimePasses ==
    /\ userPools.registered /\ userPools.fresh
    /\ MBecomes([MCur EXCEPT !.userPools.fresh = FALSE])

\* logout(req, next): without a passport user next() at once, else
\* req.session.destroy
Logout(s) ==
    /\ lo[s].pc = "none"
    /\ s \in UserSessions => s \in store
    /\ MBecomes(IF s \in UserSessions THEN [MCur EXCEPT !.lo[s].pc = "destroying"]
                ELSE NextCalled(MCur, s))

\* the callback of req.session.destroy: without userPools[userId] next(), else
\* async.detect over the ids of the sessions registered for the user
SessionDestroyed(s) ==
    /\ lo[s].pc = "destroying"
    /\ LET S1 == [MCur EXCEPT !.store = @ \ {s}]
       IN  MBecomes(IF ~userPools.registered THEN NextCalled(S1, s)
                    ELSE [S1 EXCEPT !.lo[s].pc = "detecting",
                                    !.lo[s].keys = userPools.sessions])

\* the callback of async.detect: the lookups of req.sessionStore.get have
\* returned; with an active session next(), else drainUserPool(userId, next)
Detected(s) ==
    /\ lo[s].pc = "detecting"
    /\ MBecomes(IF lo[s].keys \cap store # {} THEN NextCalled(MCur, s)
                ELSE DrainUserPool(MCur, s))

\* pool.pool.drain calls back once nobody waits and every client is idle:
\* destroyAllNow, then the callback of drainUserPool
UserDrained(p) ==
    /\ upool[p].drainFor # {}
    /\ upool[p].waiting = <<>>
    /\ upool[p].h \in {"idle", "none"}
    /\ MBecomes(DrainCbs([DestroyAllNow(MCur, p) EXCEPT !.upool[p].drainFor = {}],
                         upool[p].drainFor))

RegInit ==
    /\ Is(Constructed(Config(Password, 0, 1, FALSE, "unset")))
    /\ \E l \in [minProp : BOOLEAN] : MetaStart(l)
    /\ cp = Built
    /\ PureIdle

RegNext ==
    \/ \E q \in 1..NumRegQueries, s \in UserSessions : Query(q, s, TRUE, "HDB")
    \/ \E p \in AllPools : UserConnectOk(p)
    \/ \E p \in AllPools : UserConnectFail(p, "err")
    \/ \E q \in Queries, res \in {"ok", "err"} : UserExecDone(q, res)
    \/ Reap
    \/ TimePasses
    \/ \E s \in Sessions \cup {AnonSession} : Logout(s)
    \/ \E s \in Sessions : SessionDestroyed(s)
    \/ \E s \in Sessions : Detected(s)
    \/ \E p \in Pools : UserDrained(p)

RegSpec == RegInit /\ [][RegNext]_vars

\* ------------------------ the failure recovery next to the reaper and logout
\* The queries of one session of the user, whose connects and statements may
\* fail with the errors queryUserPool recovers from, while the reaper and the
\* logout of the session unregister the user.
RaceInit == RegInit

RaceNext ==
    \/ \E q \in 1..NumRegQueries : Query(q, 1, TRUE, "HDB")
    \/ \E p \in Pools : UserConnectOk(p)
    \/ \E p \in Pools, code \in {"principal", "err"} : UserConnectFail(p, code)
    \/ \E q \in Queries, res \in {"ok", "auth"} : UserExecDone(q, res)
    \/ \E q \in Queries : DrainDone(q)
    \/ \E k \in Cookies : CookieExpires(k)
    \/ Reap
    \/ TimePasses
    \/ Logout(1)
    \/ SessionDestroyed(1)
    \/ Detected(1)
    \/ \E p \in Pools : UserDrained(p)

RaceSpec == RaceInit /\ [][RaceNext]_vars

MetaInit ==
    /\ Is(Constructed(Config(Password, 0, 1, FALSE, "unset")))
    /\ \E l \in [minProp : BOOLEAN] : MetaStart(l)
    /\ cp = Built
    /\ PureIdle

MetaNext ==
    \/ \E q \in Queries, s \in Sessions \cup {NoSession, AnonSession}, saml \in BOOLEAN :
           Query(q, s, saml, "HDB")
    \/ \E p \in AllPools : UserConnectOk(p)
    \/ \E p \in AllPools, code \in {"auth", "principal", "err"} : UserConnectFail(p, code)
    \/ \E q \in Queries, rejected \in BOOLEAN : DetectSAMLerrorDone(q, rejected)
    \/ \E q \in Queries, res \in {"ok", "err", "auth"} : UserExecDone(q, res)
    \/ \E q \in Queries : DrainDone(q)
    \/ \E k \in Cookies : CookieExpires(k)
    \/ \E p \in AllPools : UserIdleSweep(p)

MetaSpec == MetaInit /\ [][MetaNext]_vars



\* ------------------------------------------------------------------ claims
Idle(h)    == InSeq(avail, h)
Tracked(h) == Idle(h) \/ h \in inUse
\* The dispatches whose statement or row stream is running on client h.
Users(h)   == {d \in Dispatches : pc[d] \in {"running", "streaming", "rowsEnded"} /\ held[d] = h}
\* The maximum the configuration asks for (maxPoolSize, 1 when it is not set).
ConfiguredMax == IF options.maxPoolSize = Unset THEN 1 ELSE options.maxPoolSize
\* The dispatch the pool gave client h to last.
LastGrantee(h) ==
    LET I == {i \in 1..Len(served) : held[served[i]] = h}
    IN  IF I = {} THEN 0 ELSE served[CHOOSE i \in I : \A j \in I : j <= i]
\* Client held[d] is checked out, and it is d it was checked out to.
CheckedOutTo(d) ==
    held[d] # NoHandle /\ held[d] \in inUse /\ LastGrantee(held[d]) = d

\* C1: every handle the pool tracks is either idle and used by no dispatch, or
\* checked out and used by exactly one dispatch.
C1_IdleXorHeld ==
    \A h \in Handles : Tracked(h) =>
        \/ Idle(h) /\ Users(h) = {}
        \/ ~Idle(h) /\ Cardinality(Users(h)) = 1

\* C2: at most maxPoolSize handles are checked out, and at most maxPoolSize
\* handles are in the pool, at any instant.
C2_AtMostMax ==
    /\ Cardinality(inUse) <= ConfiguredMax
    /\ Cardinality({h \in Handles : Tracked(h)}) <= ConfiguredMax

C4_NothingDeliveredAfterClose ==
    \A d \in Dispatches : \A i \in 1..Len(cbs[d]) :
        cbs[d][i] = "null" => i = Len(cbs[d])

\* C5: a dispatch whose request closed while it waited never prepares or
\* executes; if it is given a handle its callback is called once, with nothing.
C5_ClosedWhileQueuedNeverRuns ==
    \A d \in dropped :
        /\ pc[d] \in {"waiting", "done"}
        /\ pc[d] = "done" /\ held[d] # NoHandle => cbs[d] = <<"null">>

\* C6: handles are given in arrival order (dispatches are numbered in the order
\* they arrive): the order of service is increasing, and no dispatch that
\* arrived before a served one is still waiting.
C6_Fifo ==
    /\ \A i, j \in 1..Len(served) : i < j => served[i] < served[j]
    /\ \A i \in 1..Len(served) : \A e \in Dispatches :
           e < served[i] => pc[e] # "waiting"

C6_Witness ==
    /\ served = <<1, 2>>
    /\ early = {1, 2}
    /\ held[1] = held[2]

\* C7: with minPoolSize > 0 the pool's maximum is 1 until the first connect has
\* succeeded and the configured maximum (1 when maxPoolSize is not set) after.
C7_MaxRestored ==
    options.minPoolSize > 0 =>
        fmax = IF \E h \in Handles : client[h] \in {"schema", "connected", "closed", "ended",
                                                     "noschema", "noschemaClosed"}
               THEN ConfiguredMax ELSE 1

\* C8: on an assertion pool with minPoolSize 1 and maxPoolSize > 1, when the
\* dispatches were all made before the first connect succeeded and no connect
\* failed and no client was lost, then once they are done there was one
\* assertion authentication, their handles carry the same session cookie and
\* the pool holds one handle.
C8_Applies ==
    /\ options.assertion # "none" /\ options.minPoolSize > 0
    /\ options.maxPoolSize > 1
    /\ early = Dispatches
    /\ \A h \in Handles : client[h] \in {"absent", "assert", "connect", "connected"}
    /\ \A d \in Dispatches : pc[d] = "done" /\ held[d] # NoHandle

C8_OneAuthentication ==
    C8_Applies =>
        /\ nAuth = 1
        /\ \A d, e \in Dispatches :
               cookie[held[d]] = cookie[held[e]] /\ cookie[held[d]] # NoCookie
        /\ count = 1 /\ Cardinality({h \in Handles : Tracked(h)}) = 1

C8_Witness ==
    C8_Applies /\ nAuth = 1 /\ count = 1 /\ \A d \in Dispatches : cbs[d] = <<"ok">>

\* C9: when maxPoolSize is not configured the pool's maximum is 1 in every
\* reachable state.
C9_DefaultMaxIsOne == options.maxPoolSize = Unset => fmax = 1

\* C10: after an authentication failure (code 10) on a cookie-based user pool
\* was handled (pool flushed and unregistered, cookie cleared), no session of
\* that user builds a pool from the failed cookie, whatever was in flight.
C10_NoPoolFromStaleCookie == \A p \in Pools : ~upool[p].stale

\* C11: once the probe detectSAMLerror runs for a query has returned, accepted
\* or rejected, the user pool is flushed (drained, then unregistered) and the
\* query's callback is called with the error; it never ends otherwise.
C11_ProbeThenFlush ==
    \A q \in Queries :
        mq[q].probe \in {"accepted", "rejected"} =>
            \/ mq[q].pc = "draining"
            \/ /\ mq[q].pc = "done" /\ mq[q].out = "probeErr"
               /\ userPools.pool # mq[q].pool

C13_OtherErrorsPassThrough ==
    [][\A q \in Queries :
          mq[q].pool \in Pools /\ mq[q].pc # "done"
          /\ mq'[q].pc = "done" /\ mq'[q].out = "err" =>
              /\ userPools' = userPools
              /\ \A s \in Sessions : sessCookie[s] # NoCookie => sessCookie'[s] # NoCookie
              /\ upool'[mq[q].pool].draining = upool[mq[q].pool].draining
              /\ upool'[mq[q].pool].min = upool[mq[q].pool].min
              /\ upool'[mq[q].pool].cookie = upool[mq[q].pool].cookie
              /\ cleaned' = cleaned]_vars

C13_Witness ==
    \E q \in Queries :
        /\ mq[q].pool \in Pools /\ mq[q].pc = "done" /\ mq[q].out = "err"
        /\ userPools.pool = mq[q].pool
        /\ sessCookie[mq[q].sess] = upool[mq[q].pool].cookie
        /\ sessCookie[mq[q].sess] # NoCookie

\* C14: every handle creation uses one strategy: the password when user and
\* password are populated, else the session cookie when user and cookie are,
\* else the assertion when there is one; with none of the three no client ever
\* connects and every acquirer is called back once with the error.
C14_HasPassword  == options.user /\ options.password
C14_HasCookie    == options.user /\ options.sessionCookie # NoCookie
C14_HasAssertion == options.assertion # "none"

C14_StrategyPrecedence ==
    /\ \A h \in Handles : client[h] \in {"assert", "connect"} =>
           /\ C14_HasPassword => method[h] = "password"
           /\ ~C14_HasPassword /\ C14_HasCookie => method[h] = "sessionCookie"
           /\ ~C14_HasPassword /\ ~C14_HasCookie => method[h] = "assertion"
           /\ method[h] = "assertion" => C14_HasAssertion
    /\ ~C14_HasPassword /\ ~C14_HasCookie /\ ~C14_HasAssertion =>
           /\ \A h \in Handles : client[h] \in {"absent", "new"}
           /\ \A d \in Dispatches : pc[d] # "init" =>
                  pc[d] = "done" /\ cbs[d] = <<"err">> /\ held[d] = NoHandle

C14_Witness ==
    /\ ~options.user /\ options.password /\ options.sessionCookie # NoCookie
    /\ ~C14_HasAssertion
    /\ \A d \in Dispatches : cbs[d] = <<"err">>
    /\ \E h \in Handles : client[h] = "new"

\* C15: once an assertion authentication has succeeded, the user and the
\* cookie are on the pool's options, and every handle creation that starts
\* from then on uses the session cookie of the options: it neither presents
\* the assertion nor calls the assertion factory.
C15_CookieReused ==
    /\ [](C14_HasAssertion /\ nAuth > 0 => C14_HasCookie)
    /\ [][\A h \in Handles :
            C14_HasAssertion /\ nAuth' > 0
            /\ client[h] = "absent" /\ client'[h] # "absent" =>
                /\ method'[h] = "sessionCookie" /\ client'[h] # "assert"
                /\ cookie'[h] = options'.sessionCookie]_vars

C15_Witness ==
    \E h \in Handles :
        /\ C14_HasAssertion /\ nAuth = 1
        /\ method[h] = "sessionCookie" /\ client[h] = "connected"
        /\ cookie[h] = options.sessionCookie

\* C16: a handle creation that fails (no authentication method, assertion
\* factory error, connect error, SET SCHEMA error) gives its error to the
\* acquirer waiting longest and to nobody else; that acquirer is called back
\* once and is not served later; the client of the failed creation is never
\* idle nor handed out.
CreationFailed(h) == client[h] \in {"new", "failed", "noschema", "noschemaClosed"}
AcquireFailed(d)  == held[d] = NoHandle /\ cbs[d] # <<>>

C16_CreationFailure ==
    /\ [](/\ Cardinality({d \in Dispatches : AcquireFailed(d)})
               <= Cardinality({h \in Handles : CreationFailed(h)}) + nErr
          /\ \A d \in Dispatches : AcquireFailed(d) =>
                 cbs[d] = <<"err">> /\ pc[d] = "done"
          /\ \A h \in Handles : CreationFailed(h) => ~Tracked(h))
    /\ [][\A h \in Handles :
            client[h] = "connect" /\ client'[h] = "failed" /\ waiting # <<>> =>
                /\ cbs'[Head(waiting)] = <<"err">>
                /\ \A d \in Dispatches : d # Head(waiting) =>
                       cbs'[d] = cbs[d] /\ pc'[d] = pc[d]]_vars

C16_Witness ==
    \E d, e \in Dispatches, h \in Handles :
        /\ client[h] = "failed" /\ avail = <<>>
        /\ cbs[d] = <<"err">> /\ held[d] = NoHandle /\ pc[d] = "done"
        /\ e # d /\ pc[e] = "waiting" /\ cbs[e] = <<>>

\* C17: createPool with options that lack the host or the port returns no
\* pool: no client is made, nothing connects and nothing can be acquired.
C17_NoPoolWithoutHostOrPort ==
    /\ cp.stage = "pool" => cp.host /\ cp.port
    /\ cp.stage = "nopool" => ~(cp.host /\ cp.port)
    /\ ~(cp.host /\ cp.port) =>
           /\ count = 0 /\ avail = <<>> /\ inUse = {}
           /\ \A h \in Handles : client[h] = "absent"
           /\ \A d \in Dispatches : pc[d] = "init"

C17_Witness ==
    /\ cp.stage = "nopool" /\ cp.host /\ ~cp.port
    /\ options.minPoolSize = 1 /\ C14_HasPassword

\* C18: with minPoolSize 1 the first client is created at construction, before
\* any acquire; while its connection is being established no acquire starts a
\* second creation; and when it is established the first acquirer that was
\* waiting for it is given that client.
C18_EagerCreation ==
    options.minPoolSize = 1 =>
        /\ client[1] # "absent"
        /\ (\A h \in Handles : client[h] \in {"absent", "assert", "connect"}) =>
               /\ count = 1
               /\ \A h \in Handles : h # 1 => client[h] = "absent"
        /\ served # <<>> /\ served[1] \in early /\ client[1] \notin {"new", "failed"} =>
               held[served[1]] = 1

C18_Witness ==
    /\ options.minPoolSize = 1 /\ options.maxPoolSize > 1
    /\ early = Dispatches /\ served = <<1>> /\ held[1] = 1 /\ pc[1] = "running"
    /\ pc[2] = "waiting"
    /\ nAuth = 1 /\ count = 1

\* C19: refreshIdle is on when the option is not set. With refreshIdle on,
\* a sweep destroys every idle handle that has timed out; with refreshIdle off
\* and no more handles in the pool than minPoolSize, a sweep destroys none,
\* and no step ends the session of an idle handle.
C19_IdleSweep ==
    /\ [](/\ options.refreshIdle = "unset" => refreshIdle
          /\ options.refreshIdle = "off" => ~refreshIdle
          /\ \A k \in 1..Len(avail) :
                 /\ refreshIdle => ToRemove(Cur, k) = SubSeq(avail, 1, k)
                 /\ ~refreshIdle /\ count <= options.minPoolSize =>
                        ToRemove(Cur, k) = <<>>)
    /\ [][~refreshIdle /\ count <= options.minPoolSize =>
             \A h \in Handles :
                 Idle(h) /\ client[h] = "connected" => client'[h] # "ended"]_vars

\* a pool with refreshIdle not set whose only handle was destroyed by a sweep
\* (no client was lost, so no validation failed)
C19_Witness ==
    /\ options.refreshIdle = "unset" /\ options.maxPoolSize = 1
    /\ nErr = 0 /\ client[1] = "ended" /\ count = 0
    /\ pc[1] = "done" /\ cbs[1] = <<"ok">> /\ pc[2] = "init"

\* C20: a query that was made runs on the user's pool if and only if its
\* request is SAML-authenticated and its session holds a passport user; every
\* other query runs on the environment pool.
C20_Routing ==
    \A q \in Queries :
        mq[q].pc # "init" =>
            /\ mq[q].pool \in Pools <=> (mq[q].saml /\ mq[q].sess \in Sessions)
            /\ mq[q].pool = EnvPool <=> ~(mq[q].saml /\ mq[q].sess \in Sessions)

C20_Witness ==
    \E q, e, f \in Queries :
        /\ mq[q].pool \in Pools /\ mq[q].pc = "running"
        /\ mq[e].pool = EnvPool /\ mq[e].sess \in Sessions /\ ~mq[e].saml
        /\ mq[f].pool = EnvPool /\ mq[f].sess = AnonSession /\ mq[f].saml

\* C27: when statement.exec reports no error, execQuery calls exCb once. With
\* a status payload that parses and has status 'success', exCb gets no error
\* and the payload; with any other status payload exCb gets the payload (or the
\* rows that carry it) as the error and nothing is sent to the response;
\* without a status payload exCb gets no error and the rows or the count.
C27_StatusPayload ==
    ex.stage = "called" /\ ~ex.res.err =>
        /\ ex.did.called /\ ~ex.did.threw
        /\ ex.res.dummyRows = "success" =>
               ex.did.err = "null" /\ ex.did.rows = "success"
        /\ ex.res.dummyRows \in Payloads \ {"success"} =>
               /\ ex.did.err \in {ex.res.dummyRows, "dummyRows"}
               /\ ex.did.err \notin {"null", "jsonFalsy"}
               /\ ~ex.did.sent
        /\ ex.res.dummyRows \notin Payloads =>
               ex.did.err = "null" /\ ex.did.rows = ex.res.rows

\* C28: the rows are pushed once each, in the order written. In a pushed row a
\* Lob column whose read stream failed holds the sentinel string, every other
\* Lob column holds the whole text of its Lob and every other column its
\* value, in the rows after a failure as in the rows before.
C28_OnlyFailedColumn ==
    lob.stage = "stream" =>
        /\ Len(lob.out) = lob.n - (IF lob.busy THEN 1 ELSE 0)
        /\ \A i \in 1..Len(lob.out) : \A c \in LobCols :
               lob.out[i].data[c] =
                   IF lob.rows[i][c] = "plain" THEN PlainValue
                   ELSE IF c \in lob.out[i].failed THEN Sentinel
                   ELSE LobText

\* two rows of two Lobs pushed: in the first the first Lob failed and the
\* second was read; in the second both were read
C28_Witness ==
    /\ lob.stage = "stream" /\ Len(lob.out) = NumLobRows
    /\ \A i \in LobRows : \A c \in LobCols : lob.rows[i][c] = "lob"
    /\ lob.out[1].failed = {1}
    /\ lob.out[1].data = <<Sentinel, LobText>>
    /\ lob.out[2].failed = {}
    /\ lob.out[2].data = <<LobText, LobText>>

C21_InvalidEnvFailsAtOnce ==
    [][\A q \in Queries :
          /\ mq[q].pc = "init" /\ mq'[q].pc # "init"
          /\ \/ mq'[q].env = ""
             \/ ~IsWord(mq'[q].env)
             \/ mq'[q].env \notin EnvNames
          => /\ mq'[q].pc = "done" /\ mq'[q].out = "invalidEnv"
             /\ userPools' = userPools /\ upool' = upool
             /\ sessCookie' = sessCookie]_vars

\* C22: a query of the user is given the pool registered for the user when
\* there is one, and no pool is built in that step; when there is none, the
\* pool built in that step (minimum 1, idle clients not refreshed) is
\* registered and given to the query.
C22_OnePoolPerUser ==
    [][\A q \in Queries :
          mq[q].pc = "init" /\ mq'[q].pc # "init" /\ mq'[q].pool \in Pools =>
              /\ mq'[q].pool = userPools'.pool
              /\ userPools.pool # NoPool =>
                     /\ userPools'.pool = userPools.pool
                     /\ \A p \in Pools : upool'[p].authMethod = upool[p].authMethod
              /\ userPools.pool = NoPool =>
                     /\ upool[mq'[q].pool].authMethod = "none"
                     /\ upool'[mq'[q].pool].authMethod # "none"
                     /\ upool'[mq'[q].pool].min = 1
                     /\ ~upool'[mq'[q].pool].refreshIdle]_vars

\* two sessions made their first queries while the one pool connects
C22_Witness ==
    \E q, e \in Queries :
        /\ mq[q].sess # mq[e].sess
        /\ mq[q].pc = "waiting" /\ mq[e].pc = "waiting"
        /\ mq[q].pool = userPools.pool /\ mq[e].pool = userPools.pool
        /\ userPools.pool \in Pools /\ upool[userPools.pool].h = "connecting"
        /\ NextPool = 2

\* C23: a query that finds no pool registered builds one that logs in with
\* the cookie cached in its session when there is one, else with the
\* assertion of the session; with neither, the query ends with the error
\* 'unsupported hdb user pool authentication mode' and no pool is built or
\* registered.
C23_PoolCredential ==
    [][\A q \in Queries :
          /\ mq[q].pc = "init" /\ mq'[q].pc # "init"
          /\ mq'[q].sess \in UserSessions /\ userPools.pool = NoPool
          => LET s == mq'[q].sess
                 p == userPools'.pool
             IN  IF sessCookie[s] # NoCookie
                 THEN /\ p \in Pools /\ mq'[q].pool = p
                      /\ upool'[p].authMethod = "sessionCookie"
                      /\ upool'[p].cookie = sessCookie[s]
                      /\ upool'[p].conn = "sessionCookie"
                 ELSE IF s \in Sessions
                 THEN /\ p \in Pools /\ mq'[q].pool = p
                      /\ upool'[p].authMethod = "assertion"
                      /\ upool'[p].cookie = NoCookie
                      /\ upool'[p].conn = "assertion"
                 ELSE /\ p = NoPool
                      /\ mq'[q].pc = "done" /\ mq'[q].out = "unsupported"
                      /\ \A r \in AllPools : upool'[r] = upool[r]]_vars

\* a pool that logs in with the cookie cached in a session that also holds
\* an assertion
C23_Witness ==
    \E p \in Pools : /\ upool[p].authMethod = "sessionCookie"
                     /\ upool[p].req \in Sessions
                     /\ upool[p].h = "connecting"

\* C24: a sweep of the reaper over a user whose last access is older than the
\* timeout unregisters the user, starts the drain of the user's pool and
\* clears the cached cookie of every session registered for the user; when
\* the drain calls back nobody waits and the client the pool held is destroyed
\* (the pool has none left when generic-pool reads the min of 0, else it may
\* be connecting a new one); a sweep over a user accessed within the timeout
\* changes nothing.
C24_ReaperSweep ==
    [][/\ Reap /\ ~userPools.fresh =>
              /\ userPools' = Unregistered
              /\ \A s \in userPools.sessions : sessCookie'[s] = NoCookie
              /\ \A s \in UserSessions \ userPools.sessions :
                     sessCookie'[s] = sessCookie[s]
              /\ userPools.pool # NoPool =>
                     /\ upool'[userPools.pool].draining
                     /\ Reaper \in upool'[userPools.pool].drainFor
       /\ Reap /\ userPools.fresh => UNCHANGED <<userPools, upool, sessCookie>>
       /\ \A p \in Pools :
              Reaper \in upool[p].drainFor /\ upool'[p].drainFor = {} =>
                  /\ upool'[p].waiting = <<>>
                  /\ upool'[p].h \in {"none", "connecting"}
                  /\ lib.minProp => upool'[p].h = "none"]_vars

\* the reaper has swept a user with two registered sessions, one of which
\* held a cached cookie, and the pool it drains still holds its client
C24_Witness ==
    /\ ~userPools.registered
    /\ \E p \in Pools : /\ Reaper \in upool[p].drainFor
                        /\ upool[p].cookie # NoCookie
                        /\ upool[p].h \in {"idle", "busy"}
                        /\ sessCookie[upool[p].req] = NoCookie
    /\ Cardinality({q \in Queries : mq[q].sess \in Sessions /\ mq[q].pc # "init"}) = 2
    /\ \E q, e \in Queries : mq[q].sess \in Sessions /\ mq[e].sess \in Sessions
                             /\ mq[q].sess # mq[e].sess

\* C25: a logout calls next exactly once and never throws; when its lookup
\* of the sessions ends, the user is unregistered and the pool drained if and
\* only if no session registered for the user is in the session store.
C25_LogoutDrainsLastSession ==
    [][\A s \in Sessions \cup {AnonSession} :
          /\ lo'[s].pc # "threw"
          /\ lo'[s].nexts <= 1
          /\ lo'[s].pc = "done" => lo'[s].nexts = 1
          /\ lo[s].pc = "detecting" /\ lo'[s].pc # "detecting" /\ userPools.registered =>
                 /\ ~userPools'.registered <=> userPools.sessions \cap store = {}
                 /\ ~userPools'.registered /\ userPools.pool # NoPool =>
                        upool'[userPools.pool].draining]_vars

\* C26: in STREAM mode the handle of a dispatch whose rows are flowing stays
\* checked out to it in every step but the 'finish' of the last stage and the
\* 'error' of a stage; the 'end' of the row stream does not release it.
C26_StreamHoldsHandle ==
    [][\A d \in Dispatches :
          pc[d] \in {"streaming", "rowsEnded"} /\ CheckedOutTo(d)
          /\ ~CheckedOutTo(d)' =>
              pc'[d] \in {"done", "streamErr"}]_vars

\* C30: a dispatch whose request has ended normally, and has neither closed
\* nor failed, is not treated as cancelled: when it is given a handle its
\* callback is not called with nothing.
C30_EndDoesNotCancel ==
    \A d \in Dispatches :
        req[d] # NoReq /\ reqSt[req[d]] = "ended" /\ held[d] # NoHandle =>
            ~InSeq(cbs[d], "null")

\* C31: every id that is registered in reqQueue is removed from it at last,
\* the id of a request object as well as the id made for a dispatch without
\* request.
C31_EntriesRemoved ==
    \A i \in 1..(NumReq + NumDispatch) : (i \in reqQueue) ~> (i \notin reqQueue)

\* C32: when the assertion factory reports an error, the acquirer waiting
\* longest is called back once with the error and is done without a handle,
\* nobody else is called back, the client never connects and is never in the
\* pool, and the factory is asked again only for an acquirer that still waits.
C32_FactoryErrorIsTerminal ==
    /\ [][\A h \in Handles :
            client[h] = "assert" /\ client'[h] = "new" =>
                /\ waiting # <<>> =>
                       /\ cbs'[Head(waiting)] = <<"err">>
                       /\ pc'[Head(waiting)] = "done"
                       /\ held'[Head(waiting)] = NoHandle
                       /\ waiting' = Tail(waiting)
                /\ \A d \in Dispatches :
                       (waiting = <<>> \/ d # Head(waiting)) =>
                           cbs'[d] = cbs[d] /\ pc'[d] = pc[d]
                /\ Cardinality({g \in Handles : client[g] = "absent" /\ client'[g] # "absent"})
                       <= (IF waiting' = <<>> THEN 0 ELSE 1)]_vars
    /\ [][\A h \in Handles : client[h] = "new" => client'[h] = "new"]_vars
    /\ [](\A h \in Handles : client[h] = "new" => ~Tracked(h))
    /\ [][\A d \in Dispatches : AcquireFailed(d) =>
            cbs'[d] = cbs[d] /\ pc'[d] = "done" /\ held'[d] = NoHandle]_vars

\* the factory failed for the first acquirer, who got the error, and is asked
\* again for the second, who still waits
C32_Witness ==
    \E h, g \in Handles, d, e \in Dispatches :
        /\ client[h] = "new" /\ options.assertion = "factory"
        /\ cbs[d] = <<"err">> /\ pc[d] = "done" /\ held[d] = NoHandle
        /\ pc[e] = "waiting" /\ cbs[e] = <<>> /\ client[g] = "assert"

\* C33: when SET SCHEMA fails on a client that has connected, the acquirer
\* waiting longest is called back once with the error and is done without a
\* handle; the client is never idle, never in use and never held by a
\* dispatch, and never becomes usable.
C33_SchemaFailureFailsCreation ==
    /\ [][\A h \in Handles :
            client[h] = "schema" /\ client'[h] = "noschema" =>
                /\ waiting # <<>> =>
                       /\ cbs'[Head(waiting)] = <<"err">>
                       /\ pc'[Head(waiting)] = "done"
                       /\ held'[Head(waiting)] = NoHandle
                /\ \A d \in Dispatches :
                       (waiting = <<>> \/ d # Head(waiting)) => cbs'[d] = cbs[d]]_vars
    /\ [][\A h \in Handles :
            client[h] \in {"noschema", "noschemaClosed"} =>
                client'[h] \in {"noschema", "noschemaClosed"}]_vars
    /\ [](\A h \in Handles :
            client[h] \in {"noschema", "noschemaClosed"} =>
                /\ ~Tracked(h)
                /\ \A d \in Dispatches : held[d] # h)

\* SET SCHEMA failed for the client made for a dispatch, which got the error
C33_Witness ==
    \E h \in Handles, d \in Dispatches :
        /\ options.defaultSchema /\ client[h] = "noschema"
        /\ cbs[d] = <<"err">> /\ pc[d] = "done" /\ held[d] = NoHandle
        /\ count = 0 /\ avail = <<>> /\ inUse = {}

\* C34: a logout whose lookup of the sessions ends when the user is no longer
\* registered calls drainUserPool, which calls next once and changes neither
\* the registry nor a pool.
C34_DrainOfMissingUser ==
    [][\A s \in Sessions :
          lo[s].pc = "detecting" /\ lo'[s].pc # "detecting" /\ ~userPools.registered =>
              /\ lo'[s].pc = "done" /\ lo'[s].nexts = 1
              /\ userPools' = userPools /\ upool' = upool]_vars

\* C35: the caller's callback of a dispatch is called at most once.
C35_CallbackAtMostOnce == \A d \in Dispatches : Len(cbs[d]) <= 1

\* C36: a query of the user that was waiting, running or in its recovery
\* when the user was unregistered ends with a call of its callback, never
\* with an exception.
C36_CompletionAfterRemoval ==
    [][\A q \in Queries :
          /\ mq[q].pc \in {"waiting", "running", "draining"}
          /\ mq'[q].pc = "done" /\ ~userPools.registered
          => mq'[q].out # "throw"]_vars

\* C37: a query of the user made while the failure recovery drains the
\* user's pool is not given that pool, and does not end with an exception.
C37_NotRoutedToDrainingPool ==
    [][\A q \in Queries :
          /\ mq[q].pc = "init" /\ mq'[q].pc # "init"
          /\ mq'[q].sess \in UserSessions /\ mq'[q].saml
          /\ userPools.pool # NoPool /\ upool[userPools.pool].draining
          => /\ mq'[q].pool # userPools.pool
             /\ mq'[q].out # "throw"]_vars

\* C38: in the step in which the probe of detectSAMLerror returns without
\* error, the client of the environment pool that ran it is destroyed: it is
\* neither idle nor given to a waiter of the environment pool.
C38_TaintedClientDestroyed ==
    [][\A q \in Queries :
          mq[q].probe = "running" /\ mq'[q].probe = "accepted" =>
              upool'[EnvPool].h \in {"none", "connecting"}]_vars

\* C39: a client whose session is open (it connected, and was neither ended
\* nor lost its connection) and whose creation is over is tracked by the
\* pool, idle or in use.
C39_ConnectedIsTrackedOrEnded ==
    \A h \in Handles : client[h] \in {"connected", "noschema"} => Tracked(h)

\* C40: when an EXEC or META dispatch on a pool of maximum 1 completes and
\* its callback makes a dispatch at once, the client has been released
\* before: the new dispatch runs on a usable client in the same turn when
\* nobody waits and the released client is usable, and it is left waiting
\* only when no client is idle.
C40_ReleasedBeforeCallback ==
    [][\A d, e \in Dispatches :
          /\ pc[d] = "running" /\ pc'[d] = "done"
          /\ pc[e] = "init" /\ pc'[e] # "init"
          /\ held[d] \in inUse /\ count = 1 /\ fmax = 1
          => /\ Len(cbs'[d]) = Len(cbs[d]) + 1
             /\ held[d] \notin inUse' \/ \E f \in Dispatches \ {d} : held'[f] = held[d]
             /\ waiting = <<>> /\ client[held[d]] = "connected" =>
                    /\ pc'[e] = "running" /\ held'[e] \in inUse'
                    /\ client'[held'[e]] = "connected"
             /\ pc'[e] = "waiting" => avail' = <<>>]_vars

\* the callback of the first dispatch made the second, which runs on the
\* client the first has released
C40_Witness ==
    /\ fmax = 1 /\ count = 1 /\ NumDispatch = 2
    /\ pc[1] = "done" /\ cbs[1] = <<"ok">>
    /\ pc[2] = "running" /\ held[2] = held[1] /\ held[2] \in inUse
    /\ cbs[2] = <<>> /\ waiting = <<>>

=============================================================================
